---- MODULE Spec2Model ----
(***************************************************************************)
(* SurrealGAN/networks.py: the five network classes, the five factory      *)
(* functions and weights_init, as a state machine over a heap of parameter *)
(* tensors.                                                                *)
(*                                                                         *)
(* Real numbers are written in tenths: 0.1 is 1, 0.2 is 2, 1.0 is 10.      *)
(* A parameter tensor is abstracted to the call that last filled it (by),  *)
(* that call's arguments (args) and a content token (data).  An activation *)
(* tensor is abstracted to its shape and to whether it shares storage with *)
(* the tensor the caller passed in.                                        *)
(***************************************************************************)
EXTENDS Integers, Sequences, FiniteSets, TLC

VARIABLES heap, modules, last, budget

vars == <<heap, modules, last, budget>>

(* ------------------------------ bounds --------------------------------- *)
MaxROI == 9
MaxPattern == 2
MaxBatch == 2
MaxModules == 2
MaxSteps == 1
MaxLatentForwards == 2

ROIs == 1..MaxROI
Patterns == 1..MaxPattern
Batches == 1..MaxBatch
\* element values of the caller's input tensor, in tenths
XData == {-10, 0, 10}
\* the arguments of the several-instance specification
HeapROIs == {4}
HeapPatterns == {1}
\* values an external optimizer writes into a parameter
StepData == {7}

(* ------------------------- program constants --------------------------- *)
init_mean == 0
init_std == 1
negative_slope == 2
bn_eps == 8
n_logits == 2
latent_in_features == 1
latent_input == 10

(* ------------------------------ helpers -------------------------------- *)
Min(S) == CHOOSE x \in S : \A y \in S : x <= y

Range(s) == {s[i] : i \in 1..Len(s)}

RECURSIVE Concat(_)
Concat(ss) == IF ss = <<>> THEN <<>> ELSE Head(ss) \o Concat(Tail(ss))

\* str.find: the lowest 0-based index at which sub occurs in s, or -1
find(s, sub) ==
  LET hits == {i \in 0..(Len(s) - Len(sub)) : SubSeq(s, i + 1, i + Len(sub)) = sub}
  IN IF hits = {} THEN -1 ELSE Min(hits)

\* m.__class__.__name__, as the tuple of its characters
classname(cls) ==
  CASE cls = "Linear" -> <<"L","i","n","e","a","r">>
    [] cls = "LeakyReLU" -> <<"L","e","a","k","y","R","e","L","U">>
    [] cls = "BatchNorm1d" -> <<"B","a","t","c","h","N","o","r","m","1","d">>
    [] cls = "Sub_Adder" -> <<"S","u","b","_","A","d","d","e","r">>
    [] cls = "Sequential" -> <<"S","e","q","u","e","n","t","i","a","l">>
    [] cls = "TwoInputSequential" ->
         <<"T","w","o","I","n","p","u","t","S","e","q","u","e","n","t","i","a","l">>
    [] cls = "LMappingGenerator" ->
         <<"L","M","a","p","p","i","n","g","G","e","n","e","r","a","t","o","r">>
    [] cls = "LEncoder" -> <<"L","E","n","c","o","d","e","r">>
    [] cls = "LDecompose" -> <<"L","D","e","c","o","m","p","o","s","e">>
    [] cls = "LDiscriminator" ->
         <<"L","D","i","s","c","r","i","m","i","n","a","t","o","r">>
    [] cls = "LLatentCorr" -> <<"L","L","a","t","e","n","t","C","o","r","r">>

\* round(a / b) in place of int(a / b)
int_div_round(a, b) == (2 * a + b) \div (2 * b)

\* int(a / b) for integers a and b > 0: true division, then truncation
\* towards zero
int_div(a, b) == IF a >= 0 THEN a \div b ELSE -((-a) \div b)

(* ------------------------------ layers --------------------------------- *)
\* nn.Linear(in_features, out_features, bias): weight and bias are heap
\* addresses, 0 until the layer's parameters are allocated; bias stays 0
\* (None) when has_bias is FALSE
Linear(in_features, out_features, has_bias) ==
  [cls |-> "Linear", in_features |-> in_features, out_features |-> out_features,
   has_bias |-> has_bias, weight |-> 0, bias |-> 0]

LeakyReLU(slope, inplace) ==
  [cls |-> "LeakyReLU", negative_slope |-> slope, inplace |-> inplace]

\* nn.BatchNorm1d(num_features, eps): affine, so it owns a weight and a bias
BatchNorm1d(num_features, eps) ==
  [cls |-> "BatchNorm1d", num_features |-> num_features, eps |-> eps,
   weight |-> 0, bias |-> 0]

\* Sub_Adder(x_dim, z_dim): the composition primitive of .modules
Sub_Adder(x_dim, z_dim) ==
  [cls |-> "Sub_Adder", x_dim |-> x_dim, z_dim |-> z_dim]

(* --------------------------- parameter heap ---------------------------- *)
\* a parameter tensor: the call that last filled it, that call's arguments
\* and a content token (the ordinal of the random draw, or the value written)
Tensor(by, args, data) == [by |-> by, args |-> args, data |-> data]

\* a parameter object shared by every layer constructed after the first
Parameter_shared(h, t) ==
  IF Len(h) > 0 THEN [heap |-> [h EXCEPT ![1] = t], addr |-> 1]
  ELSE [heap |-> Append(h, t), addr |-> Len(h) + 1]

\* nn.Parameter(t): a new tensor object, at an address no other object has
Parameter(h, t) == [heap |-> Append(h, t), addr |-> Len(h) + 1]

\* the parameters a layer creates when it is constructed: Linear fills its
\* weight with kaiming_uniform_ and its bias with uniform_ (reset_parameters)
RECURSIVE alloc(_, _, _)
alloc(h, layers, draws) ==
  IF layers = <<>> THEN [heap |-> h, layers |-> <<>>]
  ELSE
    LET l == Head(layers) IN
    IF l.cls = "Linear" THEN
      LET w == Parameter(h, Tensor("kaiming_uniform_", <<>>, draws + 1))
          b == IF l.has_bias
               THEN Parameter(w.heap, Tensor("uniform_", <<>>, draws + 2))
               ELSE [heap |-> w.heap, addr |-> 0]
          rest == alloc(b.heap, Tail(layers), draws + (IF l.has_bias THEN 2 ELSE 1))
      IN [heap |-> rest.heap,
          layers |-> <<[l EXCEPT !.weight = w.addr, !.bias = b.addr]>> \o rest.layers]
    ELSE IF l.cls = "BatchNorm1d" THEN
      LET w == Parameter(h, Tensor("ones_", <<>>, 10))
          b == Parameter(w.heap, Tensor("zeros_", <<>>, 0))
          rest == alloc(b.heap, Tail(layers), draws)
      IN [heap |-> rest.heap,
          layers |-> <<[l EXCEPT !.weight = w.addr, !.bias = b.addr]>> \o rest.layers]
    ELSE
      LET rest == alloc(h, Tail(layers), draws)
      IN [heap |-> rest.heap, layers |-> <<l>> \o rest.layers]

\* nn.Module: the root object, its container self.model and the layers
Module(cls, container, nROI, nPattern, ndim, layers) ==
  [cls |-> cls, container |-> container, nROI |-> nROI, nPattern |-> nPattern,
   ndim |-> ndim, _parameters |-> <<>>, model |-> layers]

(* --------------------------- network classes --------------------------- *)
\* block with the normalization stage switched on by default
G_block_normalized(in_layer, out_layer, normalize) ==
  <<Linear(in_layer, out_layer, FALSE), BatchNorm1d(out_layer, bn_eps),
    LeakyReLU(negative_slope, TRUE)>>

\* LMappingGenerator.__init__.block
G_block(in_layer, out_layer, normalize) ==
  <<Linear(in_layer, out_layer, FALSE)>>
  \o (IF normalize THEN <<BatchNorm1d(out_layer, bn_eps)>> ELSE <<>>)
  \o <<LeakyReLU(negative_slope, TRUE)>>

\* a generator whose expansion path starts at the latent width
G_layers_pattern(nPattern, nROI) ==
  G_block(nROI, int_div(nROI, 2), FALSE)
  \o G_block(int_div(nROI, 2), int_div(nROI, 4), FALSE)
  \o <<Sub_Adder(int_div(nROI, 4), nPattern)>>
  \o G_block(nPattern, int_div(nROI, 2), FALSE)
  \o G_block(int_div(nROI, 2), nROI, FALSE)

\* the layer list of LMappingGenerator.__init__ (block's normalize defaults
\* to False and no call passes it)
G_layers(nPattern, nROI) ==
  G_block(nROI, int_div(nROI, 2), FALSE)
  \o G_block(int_div(nROI, 2), int_div(nROI, 4), FALSE)
  \o <<Sub_Adder(int_div(nROI, 4), nPattern)>>
  \o G_block(int_div(nROI, 4), int_div(nROI, 2), FALSE)
  \o G_block(int_div(nROI, 2), nROI, FALSE)

LMappingGenerator(h, nPattern, nROI) ==
  LET a == alloc(h, G_layers(nPattern, nROI), 0)
  IN [heap |-> a.heap,
      module |-> Module("LMappingGenerator", "TwoInputSequential", nROI, nPattern, 0,
                        a.layers)]

\* the encoder's block with bias=False, as in the generator's block
E_block_nobias(in_layer, out_layer) ==
  <<LeakyReLU(negative_slope, TRUE), Linear(in_layer, out_layer, FALSE)>>

\* LEncoder.__init__.block
E_block(in_layer, out_layer) ==
  <<LeakyReLU(negative_slope, TRUE), Linear(in_layer, out_layer, TRUE)>>

E_layers(nPattern, nROI) ==
  <<Linear(nROI, int_div(nROI, 2), TRUE)>>
  \o E_block(int_div(nROI, 2), int_div(nROI, 4))
  \o E_block(int_div(nROI, 4), nPattern)

LEncoder(h, nPattern, nROI) ==
  LET a == alloc(h, E_layers(nPattern, nROI), 0)
  IN [heap |-> a.heap,
      module |-> Module("LEncoder", "Sequential", nROI, nPattern, 0, a.layers)]

\* the decomposer's block with the in-place activation of the other blocks
D_block_inplace(in_layer, out_layer) ==
  <<LeakyReLU(negative_slope, TRUE), Linear(in_layer, out_layer, TRUE)>>

\* LDecompose.__init__.block
D_block(in_layer, out_layer) ==
  <<LeakyReLU(negative_slope, FALSE), Linear(in_layer, out_layer, TRUE)>>

D_layers(nPattern, nROI) == D_block(int_div(nROI, 1), int_div(nPattern * nROI, 1))

LDecompose(h, nPattern, nROI) ==
  LET a == alloc(h, D_layers(nPattern, nROI), 0)
  IN [heap |-> a.heap,
      module |-> Module("LDecompose", "Sequential", nROI, nPattern, 0, a.layers)]

\* a discriminator with a single logit
Disc_layers_single(nROI) ==
  <<Linear(nROI, int_div(nROI, 2), TRUE),
    LeakyReLU(negative_slope, TRUE),
    Linear(int_div(nROI, 2), int_div(nROI, 4), TRUE),
    LeakyReLU(negative_slope, TRUE),
    Linear(int_div(nROI, 4), 1, TRUE)>>

\* the layers of LDiscriminator.__init__
Disc_layers(nROI) ==
  <<Linear(nROI, int_div(nROI, 2), TRUE),
    LeakyReLU(negative_slope, TRUE),
    Linear(int_div(nROI, 2), int_div(nROI, 4), TRUE),
    LeakyReLU(negative_slope, TRUE),
    Linear(int_div(nROI, 4), n_logits, TRUE)>>

LDiscriminator(h, nROI) ==
  LET a == alloc(h, Disc_layers(nROI), 0)
  IN [heap |-> a.heap,
      module |-> Module("LDiscriminator", "Sequential", nROI, 0, 0, a.layers)]

Latent_layers(ndim) ==
  <<Linear(latent_in_features, ndim, FALSE),
    LeakyReLU(negative_slope, TRUE),
    Linear(ndim, ndim, FALSE)>>

LLatentCorr(h, ndim) ==
  LET a == alloc(h, Latent_layers(ndim), 0)
  IN [heap |-> a.heap,
      module |-> Module("LLatentCorr", "Sequential", 0, 0, ndim, a.layers)]

(* ---------------------------- weights_init ----------------------------- *)
\* whether the object has an attribute named weight
HasWeight(m) == m.cls \in {"Linear", "BatchNorm1d"}

\* weights_init that re-samples the bias as well
weights_init_bias(m, st) ==
  IF st.err THEN st
  ELSE IF find(classname(m.cls), <<"L","i","n","e","a","r">>) # -1 THEN
    LET s1 == [st EXCEPT !.heap[m.weight] =
                           Tensor("normal_", <<init_mean, init_std>>, st.draws + 1),
                         !.draws = st.draws + 1]
    IN IF m.bias # 0
       THEN [s1 EXCEPT !.heap[m.bias] =
                         Tensor("normal_", <<init_mean, init_std>>, s1.draws + 1),
                       !.draws = s1.draws + 1]
       ELSE s1
  ELSE st

\* weights_init(m) on the state st = [heap, draws, err]: m.weight of a class
\* without that attribute raises AttributeError
weights_init(m, st) ==
  IF st.err THEN st
  ELSE IF find(classname(m.cls), <<"L","i","n","e","a","r">>) # -1 THEN
    IF HasWeight(m)
    THEN [st EXCEPT !.heap[m.weight] =
                      Tensor("normal_", <<init_mean, init_std>>, st.draws + 1),
                    !.draws = st.draws + 1]
    ELSE [st EXCEPT !.err = TRUE]
  ELSE st

\* the objects nn.Module.apply visits, children before their parent: the
\* layers, then the container self.model, then the module itself
Nodes(m) == m.model \o <<[cls |-> m.container]>> \o <<[cls |-> m.cls]>>

RECURSIVE apply_nodes(_, _)
apply_nodes(nodes, st) ==
  IF nodes = <<>> THEN st
  ELSE apply_nodes(Tail(nodes), weights_init(Head(nodes), st))

\* netX.apply(weights_init)
apply(m, h) == apply_nodes(Nodes(m), [heap |-> h, draws |-> Len(h), err |-> FALSE])

\* module.parameters(): the parameters registered on the module itself, then
\* those of its layers in order
RECURSIVE layer_params(_)
layer_params(layers) ==
  IF layers = <<>> THEN <<>>
  ELSE LET l == Head(layers) IN
       (IF l.cls \in {"Linear", "BatchNorm1d"}
        THEN <<l.weight>> \o (IF l.bias # 0 THEN <<l.bias>> ELSE <<>>)
        ELSE <<>>)
       \o layer_params(Tail(layers))

parameters(m) == m._parameters \o layer_params(m.model)

(* ------------------------------ forward -------------------------------- *)
\* an activation on its way through a stack: its shape, whether it shares
\* storage with the caller's input tensor, the caller's tensor's element
\* value (x), and whether an exception was raised
Activation(shape, alias, x) == [shape |-> shape, alias |-> alias, x |-> x, err |-> FALSE]

Last(shape) == shape[Len(shape)]

\* F.leaky_relu on one element, in tenths
leaky_relu(v, slope) == IF v >= 0 THEN v ELSE (v * slope) \div 10

\* nn.Linear.forward: the last dimension must equal in_features; the
\* result is a new tensor
Linear_forward(l, st) ==
  IF Last(st.shape) # l.in_features THEN [st EXCEPT !.err = TRUE]
  ELSE [st EXCEPT !.shape = SubSeq(st.shape, 1, Len(st.shape) - 1) \o <<l.out_features>>,
                  !.alias = FALSE]

\* nn.LeakyReLU.forward: in place it overwrites its input and returns it
LeakyReLU_forward(l, st) ==
  IF l.inplace
  THEN [st EXCEPT !.x = IF st.alias THEN leaky_relu(st.x, l.negative_slope) ELSE st.x]
  ELSE [st EXCEPT !.alias = FALSE]

\* nn.BatchNorm1d.forward in training mode: more than one value per channel
BatchNorm1d_forward(l, st) ==
  IF Len(st.shape) # 2 \/ Last(st.shape) # l.num_features \/ st.shape[1] < 2
  THEN [st EXCEPT !.err = TRUE]
  ELSE [st EXCEPT !.alias = FALSE]

\* Sub_Adder.forward(x, z): fuses the x_dim-wide activation with the
\* z_dim-wide latent code; the result has the activation's shape
Sub_Adder_forward(l, st, z) ==
  IF Last(st.shape) # l.x_dim \/ Last(z.shape) # l.z_dim \/ z.shape[1] # st.shape[1]
  THEN [st EXCEPT !.err = TRUE]
  ELSE [st EXCEPT !.alias = FALSE]

Layer_forward(l, st) ==
  CASE l.cls = "Linear" -> Linear_forward(l, st)
    [] l.cls = "LeakyReLU" -> LeakyReLU_forward(l, st)
    [] l.cls = "BatchNorm1d" -> BatchNorm1d_forward(l, st)
    [] OTHER -> [st EXCEPT !.err = TRUE]

\* nn.Sequential.forward: each layer's output is the next layer's input
RECURSIVE Sequential_forward(_, _)
Sequential_forward(layers, st) ==
  IF layers = <<>> \/ st.err THEN st
  ELSE Sequential_forward(Tail(layers), Layer_forward(Head(layers), st))

\* TwoInputSequential.forward: the side input reaches the two-input stage
\* only; every other stage receives the primary activation alone
RECURSIVE TwoInputSequential_forward(_, _, _)
TwoInputSequential_forward(layers, st, z) ==
  IF layers = <<>> \/ st.err THEN st
  ELSE TwoInputSequential_forward(Tail(layers),
         IF Head(layers).cls = "Sub_Adder"
         THEN Sub_Adder_forward(Head(layers), st, z)
         ELSE Layer_forward(Head(layers), st),
         z)

LMappingGenerator_forward(m, x, z) ==
  TwoInputSequential_forward(m.model, Activation(x.shape, TRUE, x.data), z)

LEncoder_forward(m, x) == Sequential_forward(m.model, Activation(x.shape, TRUE, x.data))

LDiscriminator_forward(m, x) ==
  Sequential_forward(m.model, Activation(x.shape, TRUE, x.data))

\* t[:, lo:hi] on a tensor with the given number of columns: the column
\* indices the slice holds, with Python's clamping of the bounds
getitem_cols(width, lo, hi) ==
  LET a == IF lo > width THEN width ELSE lo
      b == IF hi > width THEN width ELSE hi
  IN IF b > a THEN [k \in 1..(b - a) |-> a + k - 1] ELSE <<>>

\* slices that stop one column early
D_slice_short(m, width, i) == getitem_cols(width, m.nROI * i, m.nROI * (i + 1) - 1)

\* slice i of LDecompose.forward's list comprehension
D_slice(m, width, i) == getitem_cols(width, m.nROI * i, m.nROI * (i + 1))

\* LDecompose.forward: z_decompose and the list of its slices, i over
\* range(self.nPattern)
LDecompose_forward(m, x) ==
  LET st == Sequential_forward(m.model, Activation(x.shape, TRUE, x.data))
  IN [st |-> st,
      out |-> IF st.err THEN <<>>
              ELSE [j \in 1..m.nPattern |-> D_slice(m, Last(st.shape), j - 1)]]

\* the input allocated once, assigned to an attribute and reused
LLatentCorr_input_cached(m, h) ==
  IF m._parameters # <<>>
  THEN [heap |-> h, addr |-> m._parameters[1], _parameters |-> m._parameters]
  ELSE LET p == Parameter(h, Tensor("tensor", <<>>, latent_input))
       IN [heap |-> p.heap, addr |-> p.addr, _parameters |-> <<p.addr>>]

\* the input of LLatentCorr.forward: nn.Parameter(torch.tensor([1.0])), a
\* new object on every call, assigned to no attribute of the module
LLatentCorr_input(m, h) ==
  LET p == Parameter(h, Tensor("tensor", <<>>, latent_input))
  IN [heap |-> p.heap, addr |-> p.addr, _parameters |-> m._parameters]

\* LLatentCorr.forward: F.tanh(self.model(input))
LLatentCorr_forward(m, h) ==
  LET inp == LLatentCorr_input(m, h)
      st == Sequential_forward(m.model, Activation(<<1>>, FALSE, 0))
  IN [heap |-> inp.heap, _parameters |-> inp._parameters, addr |-> inp.addr,
      fed |-> inp.heap[inp.addr], st |-> st, act |-> "tanh"]

(* ------------------------------ actions -------------------------------- *)
\* the common body of the five factories: c is the constructed module and
\* the heap after construction; apply(weights_init) runs before the return.
\* An exception leaves the caller without a module.
Factory(op, c) ==
  /\ budget.modules > 0
  /\ LET a == apply(c.module, c.heap) IN
     /\ heap' = IF a.err THEN heap ELSE a.heap
     /\ modules' = IF a.err THEN modules ELSE Append(modules, c.module)
     /\ last' = [op |-> op, mod |-> IF a.err THEN 0 ELSE Len(modules) + 1,
                 ctor |-> c.heap, err |-> a.err]
  /\ budget' = [budget EXCEPT !.modules = @ - 1]

define_Linear_Mapping(nROI, nPattern) ==
  Factory("define_Linear_Mapping", LMappingGenerator(heap, nPattern, nROI))

define_Linear_Discriminator(nROI) ==
  Factory("define_Linear_Discriminator", LDiscriminator(heap, nROI))

define_Linear_Reconstruction(nROI, nPattern) ==
  Factory("define_Linear_Reconstruction", LEncoder(heap, nPattern, nROI))

define_Linear_Decomposer(nROI, nPattern) ==
  Factory("define_Linear_Decomposer", LDecompose(heap, nPattern, nROI))

define_Latent_Corr(ndim) ==
  Factory("define_Latent_Corr", LLatentCorr(heap, ndim))

\* the caller's input tensors of one forward call
Input(m, b, d) == [shape |-> <<b, m.nROI>>, data |-> d]
Latent(m, b) == [shape |-> <<b, m.nPattern>>]

\* netG(input_x, input_z)
Forward_LMappingGenerator(i, b, d) ==
  /\ i \in 1..Len(modules)
  /\ modules[i].cls = "LMappingGenerator"
  /\ LET m == modules[i]
         r == LMappingGenerator_forward(m, Input(m, b, d), Latent(m, b))
     IN last' = [op |-> "forward", mod |-> i, x |-> Input(m, b, d), x_after |-> r.x,
                 out |-> r.shape, err |-> r.err]
  /\ UNCHANGED <<heap, modules, budget>>

\* netC(input_y)
Forward_LEncoder(i, b, d) ==
  /\ i \in 1..Len(modules)
  /\ modules[i].cls = "LEncoder"
  /\ LET m == modules[i]
         r == LEncoder_forward(m, Input(m, b, d))
     IN last' = [op |-> "forward", mod |-> i, x |-> Input(m, b, d), x_after |-> r.x,
                 out |-> r.shape, err |-> r.err]
  /\ UNCHANGED <<heap, modules, budget>>

\* netD(input_y), the decomposer
Forward_LDecompose(i, b, d) ==
  /\ i \in 1..Len(modules)
  /\ modules[i].cls = "LDecompose"
  /\ LET m == modules[i]
         r == LDecompose_forward(m, Input(m, b, d))
     IN last' = [op |-> "forward", mod |-> i, x |-> Input(m, b, d), x_after |-> r.st.x,
                 pre |-> r.st.shape, out |-> r.out, err |-> r.st.err]
  /\ UNCHANGED <<heap, modules, budget>>

\* netD(input_y), the discriminator
Forward_LDiscriminator(i, b, d) ==
  /\ i \in 1..Len(modules)
  /\ modules[i].cls = "LDiscriminator"
  /\ LET m == modules[i]
         r == LDiscriminator_forward(m, Input(m, b, d))
     IN last' = [op |-> "forward", mod |-> i, x |-> Input(m, b, d), x_after |-> r.x,
                 out |-> r.shape, err |-> r.err]
  /\ UNCHANGED <<heap, modules, budget>>

\* netL()
Forward_LLatentCorr(i) ==
  /\ i \in 1..Len(modules)
  /\ modules[i].cls = "LLatentCorr"
  /\ budget.latent > 0
  /\ LET r == LLatentCorr_forward(modules[i], heap) IN
     /\ heap' = r.heap
     /\ modules' = [modules EXCEPT ![i]._parameters = r._parameters]
     /\ last' = [op |-> "forward", mod |-> i, addr |-> r.addr, fed |-> r.fed,
                 out |-> r.st.shape, act |-> r.act, err |-> r.st.err]
  /\ budget' = [budget EXCEPT !.latent = @ - 1]

\* an external optimizer updates, in place, one parameter that
\* modules[i].parameters() yields
Step(i, a, d) ==
  /\ budget.steps > 0
  /\ i \in 1..Len(modules)
  /\ a \in Range(parameters(modules[i]))
  /\ heap' = [heap EXCEPT ![a] = Tensor("step", <<>>, d)]
  /\ last' = [op |-> "step", mod |-> i, addr |-> a]
  /\ budget' = [budget EXCEPT !.steps = @ - 1]
  /\ UNCHANGED modules

(* --------------------------- specifications ---------------------------- *)
\* one module instance, over all construction arguments
Init ==
  /\ heap = <<>>
  /\ modules = <<>>
  /\ last = [op |-> "init"]
  /\ budget = [modules |-> 1, steps |-> MaxSteps, latent |-> MaxLatentForwards]

Next ==
  \/ \E nROI \in ROIs, nPattern \in Patterns : define_Linear_Mapping(nROI, nPattern)
  \/ \E nROI \in ROIs : define_Linear_Discriminator(nROI)
  \/ \E nROI \in ROIs, nPattern \in Patterns : define_Linear_Reconstruction(nROI, nPattern)
  \/ \E nROI \in ROIs, nPattern \in Patterns : define_Linear_Decomposer(nROI, nPattern)
  \/ \E ndim \in Patterns : define_Latent_Corr(ndim)
  \/ \E i \in 1..Len(modules), b \in Batches, d \in XData : Forward_LMappingGenerator(i, b, d)
  \/ \E i \in 1..Len(modules), b \in Batches, d \in XData : Forward_LEncoder(i, b, d)
  \/ \E i \in 1..Len(modules), b \in Batches, d \in XData : Forward_LDecompose(i, b, d)
  \/ \E i \in 1..Len(modules), b \in Batches, d \in XData : Forward_LDiscriminator(i, b, d)
  \/ \E i \in 1..Len(modules) : Forward_LLatentCorr(i)
  \/ \E i \in 1..Len(modules), a \in 1..Len(heap), d \in StepData : Step(i, a, d)

Spec == Init /\ [][Next]_vars

\* several module instances side by side, over small construction arguments
InitHeap ==
  /\ heap = <<>>
  /\ modules = <<>>
  /\ last = [op |-> "init"]
  /\ budget = [modules |-> MaxModules, steps |-> MaxSteps, latent |-> MaxLatentForwards]

NextHeap ==
  \/ \E nROI \in HeapROIs, nPattern \in HeapPatterns : define_Linear_Mapping(nROI, nPattern)
  \/ \E nROI \in HeapROIs : define_Linear_Discriminator(nROI)
  \/ \E nROI \in HeapROIs, nPattern \in HeapPatterns :
        define_Linear_Reconstruction(nROI, nPattern)
  \/ \E nROI \in HeapROIs, nPattern \in HeapPatterns : define_Linear_Decomposer(nROI, nPattern)
  \/ \E ndim \in HeapPatterns : define_Latent_Corr(ndim)
  \/ \E i \in 1..Len(modules) : Forward_LLatentCorr(i)
  \/ \E i \in 1..Len(modules), a \in 1..Len(heap), d \in StepData : Step(i, a, d)

SpecHeap == InitHeap /\ [][NextHeap]_vars

(* ------------------------- vocabulary of the claims -------------------- *)
FactoryOps ==
  {"define_Linear_Mapping", "define_Linear_Discriminator", "define_Linear_Reconstruction",
   "define_Linear_Decomposer", "define_Latent_Corr"}

\* the last operation was a forward call of a module of class cls
IsForward(cls) == last.op = "forward" /\ modules[last.mod].cls = cls

\* the last operation was a factory call that returned a module
Returned == last.op \in FactoryOps /\ ~last.err

Classes(m) == [k \in 1..Len(m.model) |-> m.model[k].cls]

IsLinear(l) == l.cls = "Linear"

Linears(m) == SelectSeq(m.model, IsLinear)

\* the declared widths and the bias flag of every linear layer, in order
Dims(m) ==
  [k \in 1..Len(Linears(m)) |->
     <<Linears(m)[k].in_features, Linears(m)[k].out_features, Linears(m)[k].has_bias>>]

\* every linear layer's output width is the next linear layer's input width
Chained(m) ==
  \A k \in 1..(Len(Linears(m)) - 1) :
    Linears(m)[k].out_features = Linears(m)[k + 1].in_features

\* floor(n / d), stated without the model's division
Floor(n, d) == CHOOSE k \in 0..n : d * k <= n /\ n < d * (k + 1)

Iota(n) == [k \in 1..n |-> k - 1]

(* -------------------------------- C1 ----------------------------------- *)
\* C1: LDecompose.forward returns exactly nPattern slices of the
\* nPattern*nROI-wide output of its stack; slice i is exactly the columns
\* [i*nROI, (i+1)*nROI); the slices are pairwise disjoint, cover every
\* column, and their concatenation in order is the pre-split tensor.
C1_DecomposePartition ==
  IsForward("LDecompose") =>
    LET m == modules[last.mod]
        W == m.nPattern * m.nROI
    IN /\ ~last.err
       /\ last.pre = <<last.x.shape[1], W>>
       /\ Len(last.out) = m.nPattern
       /\ \A i \in 0..(m.nPattern - 1) :
            last.out[i + 1] = [k \in 1..m.nROI |-> i * m.nROI + k - 1]
       /\ \A i, j \in 1..Len(last.out) :
            i # j => Range(last.out[i]) \cap Range(last.out[j]) = {}
       /\ UNION {Range(last.out[i]) : i \in 1..Len(last.out)} = 0..(W - 1)
       /\ Concat(last.out) = Iota(W)

C1_Witness ==
  /\ IsForward("LDecompose")
  /\ modules[last.mod].nPattern >= 2
  /\ modules[last.mod].nROI >= 3
  /\ Len(last.out) = modules[last.mod].nPattern
  /\ ~last.err

(* -------------------------------- C2 ----------------------------------- *)
\* C2: for nROI divisible by 4 the mapping generator's stages are Linear
\* (nROI->nROI/2), LeakyReLU, Linear(nROI/2->nROI/4), LeakyReLU, the
\* composition primitive, Linear(nROI/4->nROI/2), LeakyReLU,
\* Linear(nROI/2->nROI), LeakyReLU, with no normalization stage and no bias
\* in any linear layer, and its forward call maps [batch, nROI] and a latent
\* input to [batch, nROI].
C2_GeneratorShape ==
  /\ \A i \in 1..Len(modules) :
       (modules[i].cls = "LMappingGenerator" /\ modules[i].nROI % 4 = 0) =>
         LET m == modules[i]
             n == m.nROI
             h == Floor(n, 2)
             q == Floor(n, 4)
         IN /\ Classes(m) = <<"Linear", "LeakyReLU", "Linear", "LeakyReLU", "Sub_Adder",
                               "Linear", "LeakyReLU", "Linear", "LeakyReLU">>
            /\ Dims(m) = <<<<n, h, FALSE>>, <<h, q, FALSE>>, <<q, h, FALSE>>,
                            <<h, n, FALSE>>>>
            /\ \A k \in 1..Len(Linears(m)) : Linears(m)[k].bias = 0
  /\ (IsForward("LMappingGenerator") /\ modules[last.mod].nROI % 4 = 0) =>
       /\ ~last.err
       /\ last.out = <<last.x.shape[1], modules[last.mod].nROI>>

C2_Witness ==
  /\ IsForward("LMappingGenerator")
  /\ modules[last.mod].nROI = 8
  /\ modules[last.mod].nPattern = 1
  /\ last.x.shape[1] = 2
  /\ last.out = <<2, 8>>

(* -------------------------------- C3 ----------------------------------- *)
\* C3: for nROI divisible by 4 the encoder's stages are Linear(nROI->nROI/2),
\* LeakyReLU, Linear(nROI/2->nROI/4), LeakyReLU, Linear(nROI/4->nPattern),
\* each linear layer with a bias and each output width the next input
\* width, and its forward call maps [batch, nROI] to [batch, nPattern].
C3_EncoderShape ==
  /\ \A i \in 1..Len(modules) :
       (modules[i].cls = "LEncoder" /\ modules[i].nROI % 4 = 0) =>
         LET m == modules[i]
             n == m.nROI
             h == Floor(n, 2)
             q == Floor(n, 4)
         IN /\ Classes(m) = <<"Linear", "LeakyReLU", "Linear", "LeakyReLU", "Linear">>
            /\ Dims(m) = <<<<n, h, TRUE>>, <<h, q, TRUE>>, <<q, m.nPattern, TRUE>>>>
            /\ \A k \in 1..Len(Linears(m)) :
                 /\ Linears(m)[k].bias \in 1..Len(heap)
                 /\ Linears(m)[k].bias # Linears(m)[k].weight
            /\ Chained(m)
  /\ (IsForward("LEncoder") /\ modules[last.mod].nROI % 4 = 0) =>
       /\ ~last.err
       /\ last.out = <<last.x.shape[1], modules[last.mod].nPattern>>

C3_Witness ==
  /\ IsForward("LEncoder")
  /\ modules[last.mod].nROI = 8
  /\ modules[last.mod].nPattern = 2
  /\ last.out = <<2, 2>>

(* -------------------------------- C4 ----------------------------------- *)
\* C4: for nROI divisible by 4 the discriminator maps [batch, nROI] to
\* [batch, 2]; the width 2 does not depend on nROI, and the last stage of
\* the stack is the linear layer (no softmax or other stage follows it).
C4_DiscriminatorShape ==
  /\ \A i \in 1..Len(modules) :
       (modules[i].cls = "LDiscriminator" /\ modules[i].nROI % 4 = 0) =>
         LET m == modules[i] IN
         /\ m.model[Len(m.model)].cls = "Linear"
         /\ m.model[Len(m.model)].out_features = 2
         /\ Chained(m)
  /\ (IsForward("LDiscriminator") /\ modules[last.mod].nROI % 4 = 0) =>
       /\ ~last.err
       /\ last.out = <<last.x.shape[1], 2>>

C4_Witness ==
  /\ IsForward("LDiscriminator")
  /\ modules[last.mod].nROI = 8
  /\ last.out = <<1, 2>>

C6_TruncatedWidths ==
  /\ last.op \in {"define_Linear_Mapping", "define_Linear_Reconstruction",
                   "define_Linear_Discriminator"} => ~last.err
  /\ \A i \in 1..Len(modules) :
       modules[i].nROI % 4 # 0 =>
         LET m == modules[i]
             n == m.nROI
             h == Floor(n, 2)
             q == Floor(n, 4)
         IN /\ m.cls = "LMappingGenerator" =>
                 /\ Dims(m) = <<<<n, h, FALSE>>, <<h, q, FALSE>>, <<q, h, FALSE>>,
                                 <<h, n, FALSE>>>>
                 /\ Chained(m)
            /\ m.cls = "LEncoder" =>
                 /\ Dims(m) = <<<<n, h, TRUE>>, <<h, q, TRUE>>, <<q, m.nPattern, TRUE>>>>
                 /\ Chained(m)
            /\ m.cls = "LDiscriminator" =>
                 /\ Dims(m) = <<<<n, h, TRUE>>, <<h, q, TRUE>>, <<q, 2, TRUE>>>>
                 /\ Chained(m)

C6_Witness ==
  /\ Returned
  /\ modules[last.mod].cls = "LMappingGenerator"
  /\ modules[last.mod].nROI = 7
  /\ Dims(modules[last.mod])[2] = <<3, 1, FALSE>>

(* -------------------------------- C7 ----------------------------------- *)
ParamSet(m) == Range(parameters(m))

\* no parameter tensor belongs to two module instances
C7_Disjoint ==
  \A i, j \in 1..Len(modules) : i # j => ParamSet(modules[i]) \cap ParamSet(modules[j]) = {}

\* a factory call leaves every existing tensor and module as it was
C7_FactoryFrame ==
  last'.op \in FactoryOps =>
    /\ \A a \in 1..Len(heap) : heap'[a] = heap[a]
    /\ SubSeq(modules', 1, Len(modules)) = modules

\* an update of one module's parameter leaves the other modules' parameters
C7_StepFrame ==
  last'.op = "step" =>
    \A j \in 1..Len(modules) :
      j # last'.mod => \A a \in ParamSet(modules[j]) : heap'[a] = heap[a]

CompositionIndex(m) == CHOOSE k \in 1..Len(m.model) : m.model[k].cls = "Sub_Adder"

\* what the composition stage returns for a batch of b rows
CompositionOut(m, b) ==
  TwoInputSequential_forward(SubSeq(m.model, 1, CompositionIndex(m)),
                             Activation(<<b, m.nROI>>, TRUE, 0), Latent(m, b))

\* C8 as stated: the composition stage produces an nPattern-wide
\* representation, and that width is the input width the following stage
\* was constructed with.
C8_AsStated ==
  \A i \in 1..Len(modules), b \in Batches :
    (modules[i].cls = "LMappingGenerator" /\ modules[i].nROI % 4 = 0) =>
      LET m == modules[i]
          k == CompositionIndex(m)
          r == CompositionOut(m, b)
      IN /\ ~r.err
         /\ Last(r.shape) = m.nPattern
         /\ Last(r.shape) = m.model[k + 1].in_features

\* C8, amended: the composition stage, constructed for an nROI/4-wide
\* activation and an nPattern-wide input_z, produces an nROI/4-wide
\* representation, and that width is the input width the following stage,
\* the first expansion linear layer, was constructed with.
C8_CompositionWidth ==
  \A i \in 1..Len(modules), b \in Batches :
    (modules[i].cls = "LMappingGenerator" /\ modules[i].nROI % 4 = 0) =>
      LET m == modules[i]
          k == CompositionIndex(m)
          r == CompositionOut(m, b)
          q == Floor(m.nROI, 4)
      IN /\ m.model[k].x_dim = q
         /\ m.model[k].z_dim = m.nPattern
         /\ m.model[k + 1].cls = "Linear"
         /\ m.model[k + 1].in_features = q
         /\ ~r.err
         /\ Last(r.shape) = m.model[k + 1].in_features

C8_Witness ==
  /\ IsForward("LMappingGenerator")
  /\ modules[last.mod].nROI = 4
  /\ modules[last.mod].nPattern = 2
  /\ ~CompositionOut(modules[last.mod], 1).err
  /\ Last(CompositionOut(modules[last.mod], 1).shape) = 1
  /\ ~last.err

(* -------------------------------- C9 ----------------------------------- *)
\* C9: every LLatentCorr.forward call feeds the stack a newly built tensor
\* of value 1.0 that is not among the module's parameters; the module's
\* parameters stay the two weight tensors it was constructed with, however
\* forward calls and optimizer updates interleave.
C9_FreshLatentInput ==
  /\ \A i \in 1..Len(modules) :
       modules[i].cls = "LLatentCorr" =>
         /\ modules[i]._parameters = <<>>
         /\ parameters(modules[i]) = <<modules[i].model[1].weight, modules[i].model[3].weight>>
  /\ IsForward("LLatentCorr") =>
       /\ last.fed = Tensor("tensor", <<>>, 10)
       /\ last.addr = Len(heap)
       /\ last.addr \notin ParamSet(modules[last.mod])
       /\ ~last.err

C9_Witness ==
  /\ IsForward("LLatentCorr")
  /\ budget.latent = MaxLatentForwards - 2
  /\ \E a \in ParamSet(modules[last.mod]) : heap[a].by = "step"
  /\ last.fed.data = 10

(* -------------------------------- C10 ---------------------------------- *)
\* C10: no forward call of the generator, encoder, decomposer or
\* discriminator changes the caller's input tensor: every in-place
\* activation stage comes after a linear stage, and the decomposer's first
\* stage, an activation, is not in place.
C10_InputUnmodified ==
  /\ \A i \in 1..Len(modules) :
       LET m == modules[i] IN
       /\ m.cls \in {"LMappingGenerator", "LEncoder", "LDecompose", "LDiscriminator"} =>
            \A k \in 1..Len(m.model) :
              (m.model[k].cls = "LeakyReLU" /\ m.model[k].inplace) =>
                \E j \in 1..(k - 1) : m.model[j].cls = "Linear"
       /\ m.cls = "LDecompose" =>
            m.model[1].cls = "LeakyReLU" /\ ~m.model[1].inplace
  /\ (last.op = "forward" /\ modules[last.mod].cls # "LLatentCorr") =>
       last.x_after = last.x.data

C10_Witness ==
  /\ IsForward("LDecompose")
  /\ last.x.data = -10
  /\ last.x_after = -10
  /\ ~last.err

====
